---- MODULE Spec2Model ----
(***************************************************************************)
(* A model of the property acquisition pipeline of mls-search-tool: the    *)
(* rate-limited request queue (lib/rateLimit.ts), the file cache           *)
(* (lib/cache.ts, lib/driveTimeLocations.ts), the listings fetcher, the    *)
(* affordability engine, and the search and prefetch orchestrators         *)
(* (lib/propertyService.ts, app/api/search/route.ts).                      *)
(*                                                                         *)
(* Time is kept relative: every timer holds the milliseconds that remain   *)
(* until it is due, lastRequestAge is Date.now() - lastRequestTime, and a  *)
(* cache entry holds its age Date.now() - timestamp.  Tick lets time pass. *)
(* JavaScript runs a callback to completion, so one action is one          *)
(* callback: the synchronous part of a call, a timer firing together with  *)
(* the continuation it resumes, or the settling of an awaited promise.     *)
(* Callbacks take no time, so a due timer fires before the clock advances. *)
(* File-system calls are taken to succeed; the content of a cache file may *)
(* be damaged from outside (CorruptFile), and SharedCacheSpec has a second *)
(* process write the cache directory while this one reads it.              *)
(***************************************************************************)
EXTENDS Integers, Sequences, FiniteSets, TLC

\* ---------------------------------------------------------------- bounds
\* Number of calls made to the queue / to the fetcher in one behaviour.
NumCallers == 2
\* Listings pages 1..MaxPage have a cache file.
MaxPage == 2
\* the provider answers at most this many requests with HTTP 429
MaxRateLimited == 1

\* ------------------------------------------------------------- constants
DEFAULT_RETRY_DELAY == 5000
DEFAULT_MAX_RETRIES == 3
requestsPerSecond == 1
\* Math.random() * 1000 lies in [0, 1000)
JitterRange == 1000

maxRetries == DEFAULT_MAX_RETRIES
minDelayMs == 1000 \div requestsPerSecond

\* Granularity of the clock: half the minimum interval.
TickMs == minDelayMs \div 2
\* the jitters the model draws from [0, JitterRange)
Jitters == {j \in {0, TickMs} : j < JitterRange}

Callers == 1..NumCallers
Pages == 1..MaxPage

\* cache.ts line 8 and driveTimeLocations.ts line 10, in milliseconds
CACHE_TTL == 12 * 60 * 60 * 1000
ISOCHRONES_CACHE_TTL == 7 * 24 * 60 * 60 * 1000
\* fetchPropertiesFromRapidApi(page = 1, limit = 200)
limit == 200

Max(a, b) == IF a >= b THEN a ELSE b
Min(a, b) == IF a <= b THEN a ELSE b

RECURSIVE Pow2(_)
Pow2(n) == IF n = 0 THEN 1 ELSE 2 * Pow2(n - 1)

\* ------------------------------------------------------- errors and text
\* A string is a sequence of words; includes() is containment of a run of
\* words and toLowerCase() maps every word.
ToLowerWord(w) ==
    CASE w = "Rate" -> "rate"
      [] w = "Limit" -> "limit"
      [] w = "RATE" -> "rate"
      [] w = "LIMIT" -> "limit"
      [] w = "Too" -> "too"
      [] w = "Many" -> "many"
      [] w = "Requests" -> "requests"
      [] OTHER -> w

ToLowerCase(s) == [i \in 1..Len(s) |-> ToLowerWord(s[i])]

Includes(s, pat) ==
    \E i \in 1..(Len(s) - Len(pat) + 1) : SubSeq(s, i, i + Len(pat) - 1) = pat

\* The values an operation may reject with.  status 0: the error carries no
\* response (a network failure); retryAfter holds the retry-after header's
\* number of seconds, and is empty when the header is absent; thrown tells
\* an Error object from a rejection with undefined.
NoBody == [type |-> "none", text |-> <<>>]
ObjectBody == [type |-> "object", text |-> <<>>]

Errors == [
  Http429 |-> [thrown |-> "object", status |-> 429,
               message |-> <<"Request", "failed", "with", "status", "code", "429">>,
               data |-> ObjectBody, retryAfter |-> <<>>],
  Http429RetryAfter1 |-> [thrown |-> "object", status |-> 429,
               message |-> <<"Request", "failed", "with", "status", "code", "429">>,
               data |-> ObjectBody, retryAfter |-> <<1>>],
  Http429RetryAfter0 |-> [thrown |-> "object", status |-> 429,
               message |-> <<"Request", "failed", "with", "status", "code", "429">>,
               data |-> ObjectBody, retryAfter |-> <<0>>],
  NetworkError |-> [thrown |-> "object", status |-> 0,
               message |-> <<"Network", "Error">>,
               data |-> NoBody, retryAfter |-> <<>>],
  Http500 |-> [thrown |-> "object", status |-> 500,
               message |-> <<"Request", "failed", "with", "status", "code", "500">>,
               data |-> ObjectBody, retryAfter |-> <<>>],
  TooManyMessage |-> [thrown |-> "object", status |-> 0,
               message |-> <<"Too", "Many", "Requests">>,
               data |-> NoBody, retryAfter |-> <<>>],
  Body503RateLimit |-> [thrown |-> "object", status |-> 503,
               message |-> <<"Request", "failed", "with", "status", "code", "503">>,
               data |-> [type |-> "string", text |-> <<"API", "Rate", "Limit", "reached">>],
               retryAfter |-> <<>>],
  Undefined |-> [thrown |-> "undefined", status |-> 0, message |-> <<>>,
               data |-> NoBody, retryAfter |-> <<>>]
]

ErrorNames == DOMAIN Errors

\* error.message && (includes('429') || lower.includes('rate limit') || ...)
MessageIndicatesRateLimit(e) ==
    /\ e.message # <<>>
    /\ \/ Includes(e.message, <<"429">>)
       \/ Includes(ToLowerCase(e.message), <<"rate", "limit">>)
       \/ Includes(ToLowerCase(e.message), <<"too", "many", "requests">>)

\* error?.response?.data && typeof data === 'string' && lower.includes('rate limit')
BodyIndicatesRateLimit(e) ==
    /\ e.data.type = "string"
    /\ Includes(ToLowerCase(e.data.text), <<"rate", "limit">>)

\* A classification that takes every failure for a rate limit.
isRateLimitError_Always(e) == TRUE

\* The classification of lines 93-102, for an error that is an object.
isRateLimitError(e) ==
    \/ e.status = 429
    \/ MessageIndicatesRateLimit(e)
    \/ BodyIndicatesRateLimit(e)

\* error.message on undefined or null raises a TypeError inside the handler.
ClassificationThrows(e) == e.thrown = "undefined"

\* retryAfterHeader ? parseInt(retryAfterHeader, 10) * 1000 : DEFAULT_RETRY_DELAY
baseDelayMs(e) ==
    IF e.retryAfter # <<>> THEN e.retryAfter[1] * 1000 ELSE DEFAULT_RETRY_DELAY

\* finalDelay without the exponential factor.
finalDelay_NoBackoff(e, retries, jitter) == baseDelayMs(e) + jitter

\* baseDelayMs * Math.pow(2, retries) + jitter
finalDelay(e, retries, jitter) == baseDelayMs(e) * Pow2(retries) + jitter

\* ------------------------------------------------------------------ state
VARIABLES
    queue,           \* RequestQueue.queue: the pending requests, head first
    processing,      \* RequestQueue.processing
    lastRequestAge,  \* Date.now() - RequestQueue.lastRequestTime, capped at minDelayMs
    delayTimers,     \* processQueue calls waiting in the setTimeout of line 59: ms left
    continues,       \* pending setTimeout(() => this.processQueue(), 0) of line 143
    retryTimers,     \* pending setTimeout of line 122: the request and the ms left
    inflight,        \* requests whose fn() is awaited at line 74
    fnOf,            \* per call: the operation handed to withRateLimit
    promise,         \* per call: the promise add() returned
    calls,           \* per call: how many times fn was invoked
    sinceLastStart,  \* ms since the latest invocation of any fn, capped at minDelayMs
    lastGap,         \* sinceLastStart as it was at the latest invocation
    loopDied,        \* processQueue calls ended by an exception of their own
    files,           \* the .cache directory: the content of every cache file
    got,             \* the cache call made since the cache last changed, if any
    lastPut,         \* per page: the data handed to the latest cacheProperties since
                     \* the page was last cleared or damaged, and how many there were
    credentials,     \* serverRuntimeConfig holds the RapidAPI key and host
    lastResponse,    \* the provider's latest answer and the call it answered
    enqueues,        \* per call: how many requests it handed to withRateLimit
    rateLimited,     \* how many requests the provider has answered with 429
    estimates,       \* the latest two results of calculateMaxHomePrice
    search,          \* the searchProperties call: its arguments, locals and outcome
    prefetch,        \* the prefetchAllProperties call: its locals and outcome
    progress         \* the calls of onProgressUpdate made so far: <<current, total>>

queueVars == <<queue, processing, lastRequestAge, delayTimers, continues,
               retryTimers, inflight, fnOf, promise, calls, sinceLastStart,
               lastGap, loopDied>>

cacheVars == <<files, got, lastPut>>
fetchVars == <<credentials, lastResponse, enqueues, rateLimited>>
orchVars == <<estimates, search, prefetch, progress>>

vars == <<queueVars, cacheVars, fetchVars, orchVars>>

\* ------------------------------------------------------------- operations
NoFn == [kind |-> "none"]

\* The mock operations: the outcome of every invocation, the last one
\* repeating.  "ok" is a fulfilled promise, any other name a rejection with
\* that error.
MockScripts == [
  succeeds |-> <<"ok">>,
  fails429TwiceThenSucceeds |-> <<"Http429", "Http429", "ok">>,
  always429 |-> <<"Http429">>,
  retryAfterThenSucceeds |-> <<"Http429RetryAfter1", "Http429RetryAfter0", "ok">>,
  tooManyThenHttp500 |-> <<"TooManyMessage", "Http500">>,
  networkError |-> <<"NetworkError">>,
  body503ThenSucceeds |-> <<"Body503RateLimit", "ok">>,
  rejectsUndefined |-> <<"Undefined">>
]

MockFns == {[kind |-> "mock", script |-> n] : n \in DOMAIN MockScripts}

\* the outcome of invocation number n of a mock operation
MockOutcome(fn, n) ==
    LET sc == MockScripts[fn.script] IN sc[Min(n, Len(sc))]

MockValue(fn) == [tag |-> "mock", of |-> fn.script]

NoSettlement == [state |-> "none", error |-> "", value |-> [tag |-> "none"]]
Pending == [state |-> "pending", error |-> "", value |-> [tag |-> "none"]]
Resolved(v) == [state |-> "resolved", error |-> "", value |-> v]
Rejected(e) == [state |-> "rejected", error |-> e, value |-> [tag |-> "none"]]

\* ------------------------------------------------------ the request queue
\* The fields of the queue object that one callback reads and writes; an
\* action applies the functions below to it and commits the result.
Q == [queue |-> queue, processing |-> processing, lastRequestAge |-> lastRequestAge,
      delayTimers |-> delayTimers, continues |-> continues, inflight |-> inflight]

\* lines 62-74 and 143: shift the head and invoke it; with nothing to shift
\* the call goes straight to the setTimeout of line 143.
ShiftAndExecute(q) ==
    IF q.queue = <<>>
    THEN [q EXCEPT !.continues = @ + 1]
    ELSE [q EXCEPT !.queue = Tail(@),
                   !.lastRequestAge = 0,
                   !.inflight = @ \cup {Head(q.queue)}]

\* RateDelay without the wait: the head is invoked at once.
RateDelay_NoWait(age) == 0

\* Math.max(0, this.minDelayMs - timeSinceLastRequest)
RateDelay(age) == Max(0, minDelayMs - age)

\* lines 45-60
processQueue(q) ==
    IF q.queue = <<>>
    THEN [q EXCEPT !.processing = FALSE]
    ELSE LET q1 == [q EXCEPT !.processing = TRUE]
             delay == RateDelay(q.lastRequestAge)
         IN IF delay > 0
            THEN [q1 EXCEPT !.delayTimers = Append(@, delay)]
            ELSE ShiftAndExecute(q1)

\* add without the test of the processing flag.
add_IgnoresProcessing(q, c) ==
    processQueue([q EXCEPT !.queue = Append(@, [id |-> c, retries |-> 0])])

\* lines 30-43
add(q, c) ==
    LET q1 == [q EXCEPT !.queue = Append(@, [id |-> c, retries |-> 0])]
    IN IF ~q1.processing THEN processQueue(q1) ELSE q1

\* Writes the queue object back, and counts the invocations it made.
Commit(q) ==
    LET started == q.inflight \ inflight IN
    /\ queue' = q.queue
    /\ processing' = q.processing
    /\ lastRequestAge' = q.lastRequestAge
    /\ delayTimers' = q.delayTimers
    /\ continues' = q.continues
    /\ inflight' = q.inflight
    /\ calls' = [c \in Callers |->
                   IF \E r \in started : r.id = c THEN calls[c] + 1 ELSE calls[c]]
    /\ IF started # {}
       THEN lastGap' = sinceLastStart /\ sinceLastStart' = 0
       ELSE UNCHANGED <<lastGap, sinceLastStart>>

\* Calls are made in the order of their numbers.
MayCall(c) ==
    /\ fnOf[c] = NoFn
    /\ \A d \in Callers : d < c => fnOf[d] # NoFn

\* withRateLimit(fn) with a mock operation
AddMock(c, fn) ==
    /\ MayCall(c)
    /\ fnOf' = [fnOf EXCEPT ![c] = fn]
    /\ promise' = [promise EXCEPT ![c] = Pending]
    /\ Commit(add(Q, c))
    /\ UNCHANGED <<retryTimers, loopDied, cacheVars, fetchVars, orchVars>>

\* The catch block of lines 81-139 and line 143, for request r rejecting
\* with the error named e.
HandleFailure(r, e) ==
    LET err == Errors[e]
        q == [Q EXCEPT !.inflight = @ \ {r}]
    IN IF ClassificationThrows(err)
       THEN /\ Commit(q)
            /\ loopDied' = loopDied + 1
            /\ UNCHANGED <<retryTimers, promise>>
       ELSE IF isRateLimitError(err) /\ r.retries < maxRetries
       THEN /\ \E jitter \in Jitters :
                 retryTimers' = retryTimers \cup
                    {[id |-> r.id, retries |-> r.retries + 1,
                      left |-> finalDelay(err, r.retries, jitter)]}
            /\ Commit([q EXCEPT !.continues = @ + 1])
            /\ UNCHANGED <<promise, loopDied>>
       ELSE /\ promise' = [promise EXCEPT ![r.id] = Rejected(e)]
            /\ Commit([q EXCEPT !.continues = @ + 1])
            /\ UNCHANGED <<retryTimers, loopDied>>

\* lines 74-80 and 143
HandleSuccess(r, v) ==
    /\ promise' = [promise EXCEPT ![r.id] = Resolved(v)]
    /\ Commit([Q EXCEPT !.inflight = @ \ {r}, !.continues = @ + 1])
    /\ UNCHANGED <<retryTimers, loopDied>>

\* The awaited fn() of a mock operation settles.
MockSettles(r) ==
    /\ r \in inflight
    /\ fnOf[r.id].kind = "mock"
    /\ LET o == MockOutcome(fnOf[r.id], calls[r.id]) IN
         IF o = "ok" THEN HandleSuccess(r, MockValue(fnOf[r.id]))
                     ELSE HandleFailure(r, o)
    /\ UNCHANGED <<fnOf, cacheVars, fetchVars, orchVars>>

\* The timer of line 59 is due: the waiting processQueue call resumes.
DelayFires(i) ==
    /\ i \in 1..Len(delayTimers)
    /\ delayTimers[i] = 0
    /\ Commit(ShiftAndExecute(
          [Q EXCEPT !.delayTimers = SubSeq(@, 1, i - 1) \o SubSeq(@, i + 1, Len(@))]))
    /\ UNCHANGED <<retryTimers, fnOf, promise, loopDied, cacheVars, fetchVars, orchVars>>

\* The timer of line 143 is due.
ContinueFires ==
    /\ continues > 0
    /\ Commit(processQueue([Q EXCEPT !.continues = @ - 1]))
    /\ UNCHANGED <<retryTimers, fnOf, promise, loopDied, cacheVars, fetchVars, orchVars>>

\* RetryFires with push in place of unshift: the request goes to the back.
RetryFires_AtBack(t) ==
    /\ t \in retryTimers
    /\ t.left = 0
    /\ retryTimers' = retryTimers \ {t}
    /\ queue' = Append(queue, [id |-> t.id, retries |-> t.retries])
    /\ UNCHANGED <<processing, lastRequestAge, delayTimers, continues, inflight,
                   fnOf, promise, calls, sinceLastStart, lastGap, loopDied,
                   cacheVars, fetchVars, orchVars>>

\* The timer of line 122 is due: the request goes back to the front.
RetryFires(t) ==
    /\ t \in retryTimers
    /\ t.left = 0
    /\ retryTimers' = retryTimers \ {t}
    /\ queue' = <<[id |-> t.id, retries |-> t.retries]>> \o queue
    /\ UNCHANGED <<processing, lastRequestAge, delayTimers, continues, inflight,
                   fnOf, promise, calls, sinceLastStart, lastGap, loopDied,
                   cacheVars, fetchVars, orchVars>>

\* ------------------------------------------------------------ JS values
\* A number that may be NaN, and what JSON makes of it.
Num(tenths) == [t |-> "number", tenths |-> tenths]
NaN == [t |-> "NaN", tenths |-> 0]
JsonNull == [t |-> "null", tenths |-> 0]

\* parseFloat of the strings the provider sends in baths_consolidated
parseFloat(str) ==
    CASE str = "0" -> Num(0)
      [] str = "2" -> Num(20)
      [] str = "2.5" -> Num(25)
      [] str = "1+" -> Num(10)
      [] OTHER -> NaN

\* The provider's records.  An optional field is <<>> when missing.  Every
\* record has a property_id; coordinates and prices are whole units.
RawProperties == [
  r1 |-> [property_id |-> "M1", list_price |-> <<250000>>, beds |-> <<3>>,
          baths_consolidated |-> <<"2.5">>, sqft |-> <<1500>>,
          lat |-> <<35>>, lon |-> <<85>>],
  r2 |-> [property_id |-> "M2", list_price |-> <<>>, beds |-> <<>>,
          baths_consolidated |-> <<>>, sqft |-> <<>>,
          lat |-> <<>>, lon |-> <<>>],
  r3 |-> [property_id |-> "M3", list_price |-> <<500000>>, beds |-> <<4>>,
          baths_consolidated |-> <<"N/A">>, sqft |-> <<2100>>,
          lat |-> <<36>>, lon |-> <<84>>]
]

\* The bodies of the provider's answers: matching_rows and total are
\* optional, hasArray tells whether properties is an array.  The rows that
\* match make MaxPage pages.
Payloads == [
  listing |-> [hasArray |-> TRUE, properties |-> <<RawProperties.r1, RawProperties.r2>>,
               matching_rows |-> <<limit * (MaxPage - 1) + 50>>, total |-> <<>>],
  oddBaths |-> [hasArray |-> TRUE, properties |-> <<RawProperties.r3>>,
               matching_rows |-> <<>>, total |-> <<>>],
  noArray |-> [hasArray |-> FALSE, properties |-> <<>>,
               matching_rows |-> <<>>, total |-> <<>>]
]

\* x || d for an optional field
OrElse(opt, d) == IF opt # <<>> /\ opt[1] # 0 THEN opt[1] ELSE d

\* Math.ceil(a / b) for a >= 0, b > 0
Ceil(a, b) == (a + b - 1) \div b

\* lines 185-206: one record to a Property (the display strings address,
\* imageUrl and listingUrl are left out)
NormalizeProperty(raw) ==
    [id |-> raw.property_id,
     price |-> OrElse(raw.list_price, 0),
     bedrooms |-> OrElse(raw.beds, 0),
     bathrooms |-> parseFloat(IF raw.baths_consolidated # <<>>
                              THEN raw.baths_consolidated[1] ELSE "0"),
     squareFeet |-> OrElse(raw.sqft, 0),
     lat |-> OrElse(raw.lat, 0),
     lng |-> OrElse(raw.lon, 0),
     monthlyPayment |-> 0]

\* lines 180-209
NormalizePage(data) ==
    LET totalCount ==
          OrElse(data.matching_rows, OrElse(data.total, Len(data.properties)))
    IN [properties |-> [i \in 1..Len(data.properties) |->
                          NormalizeProperty(data.properties[i])],
        totalCount |-> totalCount,
        totalPages |-> Ceil(totalCount, limit)]

EmptyPage == [properties |-> <<>>, totalCount |-> 0, totalPages |-> 0]

\* The drive-time polygon sets that are cached.
\* The provider's GeoJSON: its type and, of the properties of its features
\* (or of the Feature it is), the two that the code writes; as the
\* provider sends it they are missing.  Its features have a geometry.
GeoJson(type) == [type |-> type, properties |-> [address |-> <<>>, driveTime |-> <<>>]]

IsochroneSets == {
  [polygons |-> <<[address |-> "A", driveTime |-> "15 minutes",
                   geoJson |-> GeoJson("FeatureCollection")]>>],
  [polygons |-> <<[address |-> "A", driveTime |-> "15 minutes",
                   geoJson |-> GeoJson("Feature")],
                  [address |-> "B", driveTime |-> "20 minutes",
                   geoJson |-> GeoJson("Polygon")]>>]
}

\* JSON.stringify writes NaN as null; every other value of a page is
\* written as it is.
StringifyNumber(n) == IF n.t = "NaN" THEN JsonNull ELSE n

\* JSON.stringify without the NaN rule
StringifyPage_Identity(data) == data

StringifyPage(data) ==
    [data EXCEPT !.properties =
        [i \in 1..Len(data.properties) |->
            [data.properties[i] EXCEPT !.bathrooms = StringifyNumber(@)]]]

\* Addresses, drive times and the provider's GeoJSON are JSON already.
StringifyIsochrones(data) == data

\* ------------------------------------------------ the affordability engine
\* Amounts are whole dollars, rounded down after every division; a division
\* by zero gives Infinity, as it does for a positive JavaScript number.
Dollars(x) == [t |-> "number", v |-> x]
Infinity == [t |-> "Infinity", v |-> 0]

\* a <= b for a whole number a and an amount b
AtMost(a, b) == b.t = "Infinity" \/ a <= b.v

\* a < b for two amounts
Below(a, b) == a.t = "number" /\ (b.t = "Infinity" \/ a.v < b.v)

estimatedTaxAndInsurance == 500

\* (monthlyRate * (1 + monthlyRate)^numPayments) /
\* ((1 + monthlyRate)^numPayments - 1) for the default interestRate 0.065 and
\* loanTermYears 30 is 0.0063207: the dollars a month that 100000 dollars
\* borrowed cost
PaymentPer100k == 632

monthlyInsurance == 1200 \div 12

\* lines 16-62, with the default rate and term
calculateMonthlyPayment(price, downPaymentPercent) ==
    LET downPayment == (price * downPaymentPercent) \div 100
        loanAmount == price - downPayment
        principalAndInterest == (loanAmount * PaymentPer100k) \div 100000
        monthlyPropertyTax == (price * 11) \div 12000
    IN principalAndInterest + monthlyPropertyTax + monthlyInsurance

\* the maximum price without the estimate of tax and insurance
calculateMaxHomePrice_NoEstimate(maxMonthlyPayment, downPaymentPercent) ==
    LET loanAmount == (Max(0, maxMonthlyPayment) * 100000) \div PaymentPer100k
    IN IF maxMonthlyPayment <= 0 THEN Dollars(0)
       ELSE IF downPaymentPercent = 100 THEN Infinity
       ELSE Dollars((loanAmount * 100) \div (100 - downPaymentPercent))

\* lines 65-122, with the default rate and term
calculateMaxHomePrice(maxMonthlyPayment, downPaymentPercent) ==
    LET availableForPI == Max(0, maxMonthlyPayment - estimatedTaxAndInsurance)
        loanAmount == (availableForPI * 100000) \div PaymentPer100k
    IN IF availableForPI <= 0 THEN Dollars(0)
       ELSE IF downPaymentPercent = 100 THEN Infinity
       ELSE Dollars((loanAmount * 100) \div (100 - downPaymentPercent))

\* the budgets and down payments that calculateMaxHomePrice is applied to
EstimateBudgets == {0, 500, 501, 502, 3500, 3700}
EstimatePercents == {0, 1, 20, 50, 99, 100}

\* A caller applies calculateMaxHomePrice; the latest two applications and
\* their results are kept.
Estimate(maxMonthlyPayment, downPaymentPercent) ==
    LET e == [maxMonthlyPayment |-> maxMonthlyPayment,
              downPaymentPercent |-> downPaymentPercent,
              maxPrice |-> calculateMaxHomePrice(maxMonthlyPayment,
                                                 downPaymentPercent)]
    IN /\ estimates' = IF Len(estimates) < 2 THEN Append(estimates, e)
                                              ELSE <<estimates[2], e>>
       /\ UNCHANGED <<queueVars, cacheVars, fetchVars, search, prefetch, progress>>

\* ------------------------------------------------------ drive-time polygons
\* The anchors of lib/driveTimeLocations.ts: two stand for the eight.
DRIVE_TIME_LOCATIONS ==
    <<[address |-> "A", driveTime |-> "15 minutes"],
      [address |-> "B", driveTime |-> "20 minutes"]>>

\* The points <<lat, lng>> that the isochrone around an anchor covers.
Area == [A |-> {<<35, 85>>}, B |-> {<<35, 85>>, <<36, 84>>}, C |-> {<<36, 84>>}]

\* turf.booleanPointInPolygon of a point and the isochrone of a polygon
booleanPointInPolygon(lat, lng, polygon) == <<lat, lng>> \in Area[polygon.address]

\* What geocodeAddress and getDriveTimeIsochrone make of a list of anchors
\* when the provider finds every address.
Isochrones(locations) ==
    [i \in 1..Len(locations) |->
        [address |-> locations[i].address, driveTime |-> locations[i].driveTime,
         geoJson |-> GeoJson("FeatureCollection")]]

\* createCombinedPolygon(polygons), lines 132-180 of driveTimeLocations.ts:
\* the polygons as the call leaves them.  It writes the anchor's address and
\* driveTime into the properties of every feature of a FeatureCollection,
\* and of a Feature, of the array it is given; the collection it returns is
\* not used by its caller.
createCombinedPolygon(polygons) ==
    [i \in 1..Len(polygons) |->
        IF polygons[i].geoJson.type \in {"FeatureCollection", "Feature"}
        THEN [polygons[i] EXCEPT !.geoJson.properties =
                 [address |-> <<polygons[i].address>>,
                  driveTime |-> <<polygons[i].driveTime>>]]
        ELSE polygons[i]]

\* isPointInPolygons(lat, lng, polygons): it has three parameters, so the
\* enabledPolygonIndices that searchProperties passes as a fourth are dropped.
isPointInPolygons(lat, lng, polygons) ==
    IF lat = 0 \/ lng = 0 \/ Len(polygons) = 0 THEN FALSE
    ELSE \E i \in 1..Len(polygons) :
            /\ polygons[i].geoJson.type \in
                  {"FeatureCollection", "Feature", "Polygon", "MultiPolygon"}
            /\ booleanPointInPolygon(lat, lng, polygons[i])

\* --------------------------------------------------------------- the cache
\* File names: prefix, page number (0 when the name holds none), extension.
PageFile(page) == [prefix |-> "properties_page_", page |-> page, ext |-> ".json"]
IsochronesFile == [prefix |-> "isochrones", page |-> 0, ext |-> ".json"]
FileNames == {PageFile(p) : p \in Pages} \cup {IsochronesFile}

\* The content of a file: none, text that JSON.parse rejects, or the JSON
\* text of {timestamp, data}, held as the entry's age and the data as JSON
\* holds it.
Absent == [kind |-> "absent"]
Corrupt == [kind |-> "corrupt"]
Envelope(age, data) == [kind |-> "json", age |-> age, data |-> data]
\* A file that fs.writeFileSync has opened and has not finished: the open
\* truncated it, and it holds a proper prefix of the text of {timestamp,
\* data}.  The data being written and the content that the open removed
\* are kept beside it.
Partial(data, before) == [kind |-> "partial", data |-> data, before |-> before]

Null == [tag |-> "null"]
Value(data) == [tag |-> "data", data |-> data]
Return(v) == [threw |-> FALSE, value |-> v]
Throw == [threw |-> TRUE, value |-> Null]

\* fs.readFileSync and JSON.parse: the envelope, or a SyntaxError
ReadAndParse(content) ==
    IF content.kind \in {"corrupt", "partial"}
    THEN [threw |-> TRUE, age |-> 0, data |-> Null]
    ELSE [threw |-> FALSE, age |-> content.age, data |-> Value(content.data)]

\* the expiry test with >= for >
Expired_AtTtl(age, ttl) == age >= ttl

\* now - cacheData.timestamp > CACHE_TTL
Expired(age, ttl) == age > ttl

\* lines 92-116 of cache.ts and 43-65 of driveTimeLocations.ts: the same
\* function but for the file and the TTL
getCached(file, ttl) ==
    IF files[file].kind = "absent" THEN Return(Null)
    ELSE LET cacheData == ReadAndParse(files[file]) IN
         IF cacheData.threw THEN Return(Null)
         ELSE IF Expired(cacheData.age, ttl) THEN Return(Null)
         ELSE Return(cacheData.data)

getCachedProperties(page) == getCached(PageFile(page), CACHE_TTL)
getCachedIsochrones == getCached(IsochronesFile, ISOCHRONES_CACHE_TTL)

\* cacheProperties writing every page to the file of page 1
cacheProperties_OneFile(data, page) ==
    [files EXCEPT ![PageFile(1)] = Envelope(0, StringifyPage(data))]

\* lines 119-137 of cache.ts: the directory after the write
cacheProperties(data, page) ==
    [files EXCEPT ![PageFile(page)] = Envelope(0, StringifyPage(data))]

\* lines 68-82 of driveTimeLocations.ts
cacheIsochrones(isochrones) ==
    [files EXCEPT ![IsochronesFile] = Envelope(0, StringifyIsochrones(isochrones))]

\* the filter without the prefix test
IsPropertyCacheFile_AnyJson(f) == f.ext = ".json"

\* file.startsWith('properties_page_') && file.endsWith('.json')
IsPropertyCacheFile(f) == f.prefix = "properties_page_" /\ f.ext = ".json"

\* lines 140-161 of cache.ts: the directory after the unlinks
clearCache ==
    [f \in FileNames |-> IF IsPropertyCacheFile(f) THEN Absent ELSE files[f]]

\* lines 142-160 of prefetchAll/route.ts (the isochrone clearing route)
clearIsochrones == [files EXCEPT ![IsochronesFile] = Absent]

TtlOf(f) == IF f = IsochronesFile THEN ISOCHRONES_CACHE_TTL ELSE CACHE_TTL

\* The age of an entry after d more milliseconds.  Ages are counted in
\* halves of the TTL, up to the first value beyond the TTL; time shorter
\* than half the TTL does not add to an age.
AgeAfter(age, d, ttl) ==
    IF d >= ttl \div 2 THEN Min(age + d, ttl + ttl \div 2) ELSE age

FilesAfter(d) ==
    [f \in FileNames |->
        IF files[f].kind = "json"
        THEN [files[f] EXCEPT !.age = AgeAfter(@, d, TtlOf(f))]
        ELSE files[f]]

NoPut == [n |-> 0, data |-> EmptyPage]

NoGet == [op |-> "none", file |-> IsochronesFile, ret |-> Return(Null)]

\* A caller reads a listings page from the cache.
GetCachedProperties(page) ==
    /\ got' = [op |-> "getCachedProperties", file |-> PageFile(page),
               ret |-> getCachedProperties(page)]
    /\ UNCHANGED <<files, lastPut, queueVars, fetchVars, orchVars>>

\* A caller reads the isochrones from the cache.
GetCachedIsochrones ==
    /\ got' = [op |-> "getCachedIsochrones", file |-> IsochronesFile,
               ret |-> getCachedIsochrones]
    /\ UNCHANGED <<files, lastPut, queueVars, fetchVars, orchVars>>

\* the pages that are handed to cacheProperties
PageValues == {NormalizePage(Payloads.listing), NormalizePage(Payloads.oddBaths)}

CacheProperties(data, page) ==
    /\ files' = cacheProperties(data, page)
    /\ lastPut' = [lastPut EXCEPT ![page] = [n |-> Min(@.n + 1, 2), data |-> data]]
    /\ got' = NoGet
    /\ UNCHANGED <<queueVars, fetchVars, orchVars>>

CacheIsochrones(isochrones) ==
    /\ files' = cacheIsochrones(isochrones)
    /\ got' = NoGet
    /\ UNCHANGED <<lastPut, queueVars, fetchVars, orchVars>>

\* POST /api/clearCache, and GET /api/prefetchAll?clearCache=true before
\* the prefetch
ClearCache ==
    /\ files' = clearCache
    /\ got' = [op |-> "clearCache", file |-> IsochronesFile, ret |-> Return(Null)]
    /\ lastPut' = [p \in Pages |-> NoPut]
    /\ UNCHANGED <<queueVars, fetchVars, orchVars>>

ClearIsochrones ==
    /\ files' = clearIsochrones
    /\ got' = [op |-> "clearIsochrones", file |-> IsochronesFile, ret |-> Return(Null)]
    /\ UNCHANGED <<lastPut, queueVars, fetchVars, orchVars>>

\* The text of a cache file is damaged (a truncated or interrupted write).
CorruptFile(f) ==
    /\ files[f].kind = "json"
    /\ files' = [files EXCEPT ![f] = Corrupt]
    /\ got' = NoGet
    /\ lastPut' = [p \in Pages |-> IF f = PageFile(p) THEN NoPut ELSE lastPut[p]]
    /\ UNCHANGED <<queueVars, fetchVars, orchVars>>

\* Two server processes over one .cache directory: the calls of one of them
\* are GetCachedProperties and GetCachedIsochrones above, and the other is
\* inside the fs.writeFileSync of cacheProperties or cacheIsochrones.  The
\* call writes the file in place: it opens it with flag 'w', which
\* truncates it, writes the text and closes it.  Within one process the
\* call is synchronous and nothing runs between its steps.
Stringify(f, data) ==
    IF f = IsochronesFile THEN StringifyIsochrones(data) ELSE StringifyPage(data)

writeFileSyncOpens(f, data) ==
    /\ files[f].kind # "partial"
    /\ files' = [files EXCEPT ![f] = Partial(data, @)]
    /\ got' = NoGet
    /\ UNCHANGED <<lastPut, queueVars, fetchVars, orchVars>>

writeFileSyncCloses(f) ==
    /\ files[f].kind = "partial"
    /\ files' = [files EXCEPT ![f] = Envelope(0, Stringify(f, @.data))]
    /\ got' = NoGet
    /\ lastPut' = [p \in Pages |->
                     IF f = PageFile(p)
                     THEN [n |-> Min(lastPut[p].n + 1, 2), data |-> files[f].data]
                     ELSE lastPut[p]]
    /\ UNCHANGED <<queueVars, fetchVars, orchVars>>

\* ---------------------------------------------------- the listings fetcher
\* What the provider answers to one request: a body (an object, or a string
\* that JSON.parse accepts or rejects), or a failure of the request.
Responses == [
  listing |-> [kind |-> "data", typeof |-> "object", parses |-> TRUE,
               payload |-> "listing", error |-> ""],
  oddBathsAsString |-> [kind |-> "data", typeof |-> "string", parses |-> TRUE,
               payload |-> "oddBaths", error |-> ""],
  garbageString |-> [kind |-> "data", typeof |-> "string", parses |-> FALSE,
               payload |-> "noArray", error |-> ""],
  noArray |-> [kind |-> "data", typeof |-> "object", parses |-> TRUE,
               payload |-> "noArray", error |-> ""],
  Http429 |-> [kind |-> "error", typeof |-> "", parses |-> FALSE,
               payload |-> "noArray", error |-> "Http429"],
  NetworkError |-> [kind |-> "error", typeof |-> "", parses |-> FALSE,
               payload |-> "noArray", error |-> "NetworkError"],
  Body503RateLimit |-> [kind |-> "error", typeof |-> "", parses |-> FALSE,
               payload |-> "noArray", error |-> "Body503RateLimit"]
]

ResponseNames == DOMAIN Responses

PageFn(page) == [kind |-> "page", page |-> page]

\* lastResponse before the provider has answered anything
NoResponse == [id |-> 0, name |-> "none"]

\* What the operation of lines 166-225 does with an answer: it returns a
\* page or throws, and leaves the cache directory as dir.
Returns(v, dir) == [threw |-> FALSE, error |-> "", value |-> v, dir |-> dir]
Throws(e, dir) == [threw |-> TRUE, error |-> e, value |-> Null, dir |-> dir]

\* error?.response?.status === 429, line 216
IsHttp429(resp) == resp.kind = "error" /\ Errors[resp.error].status = 429

\* the operation rethrowing whatever it catches
pageOperation_RethrowsAll(page, resp) ==
    IF resp.kind = "error" THEN Throws(resp.error, files)
    ELSE IF resp.typeof = "string" /\ ~resp.parses THEN Throws("NetworkError", files)
    ELSE IF ~Payloads[resp.payload].hasArray THEN Returns(Value(EmptyPage), files)
    ELSE Returns(Value(NormalizePage(Payloads[resp.payload])),
                 cacheProperties(NormalizePage(Payloads[resp.payload]), page))

\* the operation caching the empty page that its catch returns
pageOperation_CachesFailures(page, resp) ==
    IF resp.kind = "error"
    THEN IF IsHttp429(resp)
         THEN Throws(resp.error, files)
         ELSE Returns(Value(EmptyPage), cacheProperties(EmptyPage, page))
    ELSE IF resp.typeof = "string" /\ ~resp.parses
    THEN Returns(Value(EmptyPage), cacheProperties(EmptyPage, page))
    ELSE IF ~Payloads[resp.payload].hasArray THEN Returns(Value(EmptyPage), files)
    ELSE Returns(Value(NormalizePage(Payloads[resp.payload])),
                 cacheProperties(NormalizePage(Payloads[resp.payload]), page))

\* the operation without the cacheProperties call of line 210
pageOperation_NoCacheWrite(page, resp) ==
    IF resp.kind = "error"
    THEN IF IsHttp429(resp)
         THEN Throws(resp.error, files)
         ELSE Returns(Value(EmptyPage), files)
    ELSE IF resp.typeof = "string" /\ ~resp.parses THEN Returns(Value(EmptyPage), files)
    ELSE IF ~Payloads[resp.payload].hasArray THEN Returns(Value(EmptyPage), files)
    ELSE Returns(Value(NormalizePage(Payloads[resp.payload])), files)

\* lines 166-225
pageOperation(page, resp) ==
    IF resp.kind = "error"
    THEN \* catch: error?.response?.status === 429 is thrown again
         IF IsHttp429(resp)
         THEN Throws(resp.error, files)
         ELSE Returns(Value(EmptyPage), files)
    ELSE IF resp.typeof = "string" /\ ~resp.parses
    THEN \* JSON.parse throws a SyntaxError, which the catch turns into a page
         Returns(Value(EmptyPage), files)
    ELSE LET data == Payloads[resp.payload] IN
         IF ~data.hasArray
         THEN Returns(Value(EmptyPage), files)
         ELSE LET result == NormalizePage(data) IN
              Returns(Value(result), cacheProperties(result, page))

\* fetchPropertiesFromRapidApi(page), lines 125-166: up to the return of
\* the cached page, of the empty page, or of withRateLimit's promise
fetchPropertiesFromRapidApi(c, page) ==
    LET cachedData == getCachedProperties(page).value IN
    /\ MayCall(c)
    /\ fnOf' = [fnOf EXCEPT ![c] = PageFn(page)]
    /\ IF cachedData # Null
       THEN /\ promise' = [promise EXCEPT ![c] = Resolved(cachedData)]
            /\ UNCHANGED <<queue, processing, lastRequestAge, delayTimers, continues,
                           inflight, calls, sinceLastStart, lastGap, enqueues>>
       ELSE IF ~credentials
       THEN /\ promise' = [promise EXCEPT ![c] = Resolved(Value(EmptyPage))]
            /\ UNCHANGED <<queue, processing, lastRequestAge, delayTimers, continues,
                           inflight, calls, sinceLastStart, lastGap, enqueues>>
       ELSE /\ promise' = [promise EXCEPT ![c] = Pending]
            /\ enqueues' = [enqueues EXCEPT ![c] = @ + 1]
            /\ Commit(add(Q, c))
    /\ UNCHANGED <<retryTimers, loopDied, cacheVars, credentials, lastResponse,
                   rateLimited>>

\* a call of fetchPropertiesFromRapidApi from outside the orchestrators
FetchPage(c, page) ==
    /\ fetchPropertiesFromRapidApi(c, page)
    /\ UNCHANGED orchVars

\* The provider answers the request of a page operation, and the awaited
\* fn() settles.
PageSettles(r, name) ==
    /\ r \in inflight
    /\ fnOf[r.id].kind = "page"
    /\ name \in ResponseNames
    /\ IsHttp429(Responses[name]) => rateLimited < MaxRateLimited
    /\ rateLimited' = IF IsHttp429(Responses[name]) THEN rateLimited + 1
                                                    ELSE rateLimited
    /\ LET page == fnOf[r.id].page
           out == pageOperation(page, Responses[name])
       IN /\ files' = out.dir
          /\ lastPut' = IF out.dir # files
                        THEN [lastPut EXCEPT ![page] =
                                [n |-> Min(@.n + 1, 2), data |-> out.value.data]]
                        ELSE lastPut
          /\ got' = IF out.dir # files THEN NoGet ELSE got
          /\ IF out.threw THEN HandleFailure(r, out.error)
                          ELSE HandleSuccess(r, out.value)
    /\ lastResponse' = [id |-> r.id, name |-> name]
    /\ UNCHANGED <<fnOf, credentials, enqueues, orchVars>>

\* ----------------------------------------------------- the orchestrators
\* the call that a search or a prefetch makes next
NextCaller == CHOOSE c \in Callers : MayCall(c)

\* ----------------------------------------------- the prefetch orchestrator
\* The locals of one prefetchAllProperties call.  page is the page whose
\* fetch is awaited.  allProperties holds the id of every property and the
\* page it came with.  obtained is the set of the pages whose data the call
\* got, from the cache or from the provider: a fetch that failed resolves
\* to the empty page or rejects.
NoPrefetch ==
    [at |-> "idle", page |-> 0, totalPages |-> 0, totalCount |-> 0,
     allProperties |-> <<>>, loadedPages |-> <<>>, obtained |-> {}]

\* [...allProperties, ...properties]
Collect(allProperties, properties, page) ==
    allProperties \o [i \in 1..Len(properties) |->
                         [id |-> properties[i].id, page |-> page]]

\* onProgressUpdate(loadedPages.length, totalPages), called for page
Report(st, page) ==
    [st EXCEPT !.log = Append(@, [current |-> Len(st.pf.loadedPages),
                                  total |-> st.pf.totalPages, page |-> page])]

\* lines 239-247 and 293-295: the fetch of page 1 has settled
OnFirstPage(st, settled) ==
    IF settled.state = "rejected"
    THEN [st EXCEPT !.pf.at = "returned", !.pf.page = 0]
    ELSE LET firstPageResult == settled.value.data IN
         Report([st EXCEPT
                   !.pf.totalPages = firstPageResult.totalPages,
                   !.pf.totalCount = firstPageResult.totalCount,
                   !.pf.allProperties = Collect(<<>>, firstPageResult.properties, 1),
                   !.pf.loadedPages = <<1>>,
                   !.pf.obtained = IF firstPageResult # EmptyPage THEN {1} ELSE {}],
                1)

\* lines 256-264 without the call of onProgressUpdate
OnCachedPage_Silent(st, page, cachedPage) ==
    [st EXCEPT !.pf.allProperties = Collect(@, cachedPage.properties, page),
               !.pf.loadedPages = Append(@, page),
               !.pf.obtained = @ \cup {page}]

\* lines 256-264: the page is in the cache
OnCachedPage(st, page, cachedPage) ==
    Report([st EXCEPT !.pf.allProperties = Collect(@, cachedPage.properties, page),
                      !.pf.loadedPages = Append(@, page),
                      !.pf.obtained = @ \cup {page}],
           page)

\* lines 268-280: the fetch of a later page has settled
OnFetchedPage(st, page, settled) ==
    IF settled.state = "rejected"
    THEN Report(st, page)
    ELSE LET pageResult == settled.value.data IN
         Report([st EXCEPT
                   !.pf.allProperties = Collect(@, pageResult.properties, page),
                   !.pf.loadedPages = Append(@, page),
                   !.pf.obtained = IF pageResult # EmptyPage THEN @ \cup {page}
                                                             ELSE @],
                page)

\* lines 252-297: the loop from page on, up to its next await or the return
RECURSIVE Loop(_, _)
Loop(st, page) ==
    IF page > st.pf.totalPages
    THEN [st EXCEPT !.pf.at = "returned", !.pf.page = 0]
    ELSE LET cachedPage == getCachedProperties(page).value IN
         IF cachedPage # Null
         THEN Loop(OnCachedPage(st, page, cachedPage.data), page + 1)
         ELSE [st EXCEPT !.pf.at = "page", !.pf.page = page]

\* prefetchAllProperties, lines 237-239
PrefetchAllProperties ==
    /\ prefetch.at = "idle"
    /\ fetchPropertiesFromRapidApi(NextCaller, 1)
    /\ prefetch' = [prefetch EXCEPT !.at = "page", !.page = 1]
    /\ UNCHANGED <<estimates, search, progress>>

\* prefetchAllProperties resumes with the settled fetch of prefetch.page and
\* runs to its next await or to its return
PrefetchResumes ==
    /\ prefetch.at = "page"
    /\ \E c \in Callers :
         /\ fnOf[c] = PageFn(prefetch.page)
         /\ promise[c].state \in {"resolved", "rejected"}
         /\ LET st0 == [pf |-> prefetch, log |-> progress]
                st1 == IF prefetch.page = 1
                       THEN OnFirstPage(st0, promise[c])
                       ELSE OnFetchedPage(st0, prefetch.page, promise[c])
                st2 == IF st1.pf.at = "returned" THEN st1
                       ELSE Loop(st1, prefetch.page + 1)
            IN /\ prefetch' = st2.pf
               /\ progress' = st2.log
               /\ IF st2.pf.at = "page"
                  THEN fetchPropertiesFromRapidApi(NextCaller, st2.pf.page)
                  ELSE UNCHANGED <<queueVars, cacheVars, fetchVars>>
    /\ UNCHANGED <<estimates, search>>

\* ------------------------------------------------- the search orchestrator
\* The state of one search request: the route's locals, the arguments and
\* locals of searchProperties, and what it returned.
NoStats ==
    [totalPropertiesOnPage |-> 0, filteredByPrice |-> 0,
     filteredByLocation |-> 0, remainingAfterFilters |-> 0]

\* An optional minimum that is not given is 0 (undefined and 0 are both
\* falsy in the tests of lines 413-423).
NoSearch ==
    [at |-> "idle", locations |-> <<>>, requestPolygons |-> <<>>,
     maxMonthlyPayment |-> 0, downPaymentPercent |-> 0, page |-> 0,
     enabledPolygonIndices |-> <<>>, geocoded |-> "none",
     driveTimePolygons |-> <<>>, properties |-> <<>>,
     minBedrooms |-> 0, minBathrooms |-> 0, minSquareFeet |-> 0,
     pageProperties |-> <<>>, filterStats |-> NoStats]

\* the anchors, budgets and polygon selections of the requests
LocationChoices == {<<>>, <<[address |-> "C", driveTime |-> "15 minutes"]>>}
Budgets == {400, 3500, 3700}
Percents == {0, 20, 100}
EnabledChoices == {<<>>, <<0>>, <<1>>}

\* what the geocoding provider does with an address (with the addresses of
\* a request, for the route): it finds it, or has zero results
\* (geocodeAddress throws)
GeocodeOutcomes == {"found", "noResults"}

\* the callback of properties.filter without the price test of line 371
PassesFilters_AnyPrice(property, maxPrice, driveTimePolygons, enabledPolygonIndices) ==
    /\ property.lat # 0 /\ property.lng # 0
    /\ isPointInPolygons(property.lat, property.lng, driveTimePolygons)

\* lines 340-396, the callback of properties.filter: isPointInPolygons is
\* called with enabledPolygonIndices as a fourth argument, which it drops
PassesFilters(property, maxPrice, driveTimePolygons, enabledPolygonIndices) ==
    /\ AtMost(property.price, maxPrice)
    /\ property.lat # 0 /\ property.lng # 0
    /\ isPointInPolygons(property.lat, property.lng, driveTimePolygons)

\* lines 339-407: filter, then map.
filteredProperties(properties, params, driveTimePolygons, enabledPolygonIndices) ==
    LET maxPrice == calculateMaxHomePrice(params.maxMonthlyPayment,
                                          params.downPaymentPercent)
        kept == SelectSeq(properties,
                   LAMBDA property : PassesFilters(property, maxPrice,
                                        driveTimePolygons, enabledPolygonIndices))
    IN [i \in 1..Len(kept) |->
          [kept[i] EXCEPT !.monthlyPayment =
              calculateMonthlyPayment(kept[i].price, params.downPaymentPercent)]]

\* lines 409-425: the optional minimums.  A bathrooms value that is NaN, or
\* null after a trip through the cache, is below every minimum.
optionalFilters(result, params) ==
    LET byBedrooms ==
          IF params.minBedrooms # 0
          THEN SelectSeq(result, LAMBDA property :
                                   property.bedrooms >= params.minBedrooms)
          ELSE result
        byBathrooms ==
          IF params.minBathrooms # 0
          THEN SelectSeq(byBedrooms, LAMBDA property :
                  /\ property.bathrooms.t # "NaN"
                  /\ property.bathrooms.tenths >= 10 * params.minBathrooms)
          ELSE byBedrooms
    IN IF params.minSquareFeet # 0
       THEN SelectSeq(byBathrooms, LAMBDA property :
                                     property.squareFeet >= params.minSquareFeet)
       ELSE byBathrooms

\* lines 427-430 and 452-456
filterStats(properties, result, maxPrice) ==
    LET totalAfterPriceFilter ==
          Len(SelectSeq(properties, LAMBDA p : AtMost(p.price, maxPrice)))
        totalFilteredByPrice == Len(properties) - totalAfterPriceFilter
        totalFilteredByLocation == totalAfterPriceFilter - Len(result)
    IN [totalPropertiesOnPage |-> Len(properties),
        filteredByPrice |-> totalFilteredByPrice,
        filteredByLocation |-> totalFilteredByLocation,
        remainingAfterFilters |-> Len(result)]

\* searchProperties, lines 309-319, and fetchDriveTimePolygons, lines
\* 86-105, up to its return of the cached polygons or its first await
BeginSearch(req) ==
    LET cachedIsochrones == getCachedIsochrones.value IN
    IF cachedIsochrones # Null
    THEN [req EXCEPT !.at = "resolved", !.geocoded = "cached",
                     !.driveTimePolygons = cachedIsochrones.data.polygons]
    ELSE [req EXCEPT !.at = "polygons", !.geocoded = "pending"]

\* POST of app/api/search/route.ts, lines 26-44 (the anchors are geocoded
\* first) or, without anchors, lines 26-72
Post(locations, maxPerMonth, downPaymentPercent, page, enabledPolygonIndices) ==
    /\ search.at = "idle"
    /\ LET req == [NoSearch EXCEPT !.locations = locations,
                                   !.maxMonthlyPayment = maxPerMonth,
                                   !.downPaymentPercent = downPaymentPercent,
                                   !.page = page,
                                   !.enabledPolygonIndices = enabledPolygonIndices]
       IN search' = IF locations # <<>> THEN [req EXCEPT !.at = "anchors"]
                                        ELSE BeginSearch(req)
    /\ UNCHANGED <<queueVars, cacheVars, fetchVars, estimates, prefetch, progress>>

\* A call of the exported searchProperties with optional minimums in its
\* params (the two routes pass none), lines 300-319.
SearchProperties(params, page, enabledPolygonIndices) ==
    /\ search.at = "idle"
    /\ search' = BeginSearch([NoSearch EXCEPT
                     !.maxMonthlyPayment = params.maxMonthlyPayment,
                     !.downPaymentPercent = params.downPaymentPercent,
                     !.minBedrooms = params.minBedrooms,
                     !.minBathrooms = params.minBathrooms,
                     !.minSquareFeet = params.minSquareFeet,
                     !.page = page,
                     !.enabledPolygonIndices = enabledPolygonIndices])
    /\ UNCHANGED <<queueVars, cacheVars, fetchVars, estimates, prefetch, progress>>

\* route.ts, lines 44-72: the anchors of the request are resolved and
\* searchProperties is called, or the request fails with status 500
AnchorsSettle(outcome) ==
    /\ search.at = "anchors"
    /\ search' = IF outcome = "found"
                 THEN BeginSearch([search EXCEPT
                         !.requestPolygons = Isochrones(search.locations)])
                 ELSE [search EXCEPT !.at = "failed"]
    /\ UNCHANGED <<queueVars, cacheVars, fetchVars, estimates, prefetch, progress>>

\* PolygonsSettle with cacheIsochrones(polygons) inside the loop, after
\* every push.
PolygonsSettle_CachesEach(outcome) ==
    /\ search.at = "polygons"
    /\ LET location == DRIVE_TIME_LOCATIONS[Len(search.driveTimePolygons) + 1]
           polygons == search.driveTimePolygons \o Isochrones(<<location>>)
       IN IF outcome = "found"
          THEN /\ files' = cacheIsochrones([polygons |-> polygons])
               /\ got' = NoGet
               /\ search' = IF Len(polygons) = Len(DRIVE_TIME_LOCATIONS)
                             THEN [search EXCEPT !.at = "resolved",
                                                 !.geocoded = "found",
                                                 !.driveTimePolygons = polygons]
                             ELSE [search EXCEPT !.driveTimePolygons = polygons]
          ELSE /\ search' = [search EXCEPT !.at = "resolved", !.geocoded = outcome,
                                           !.driveTimePolygons = <<>>]
               /\ UNCHANGED <<files, got>>
    /\ UNCHANGED <<lastPut, queueVars, fetchVars, estimates, prefetch, progress>>

\* fetchDriveTimePolygons, lines 99-128: one turn of the loop, the two
\* awaits of one anchor settled.  While the loop runs driveTimePolygons
\* holds its local array polygons.  After the last anchor the polygons are
\* cached and returned; a rejection leaves the loop for the catch of line
\* 125.
PolygonsSettle(outcome) ==
    /\ search.at = "polygons"
    /\ LET location == DRIVE_TIME_LOCATIONS[Len(search.driveTimePolygons) + 1]
           polygons == search.driveTimePolygons \o Isochrones(<<location>>)
       IN IF outcome = "found"
          THEN IF Len(polygons) = Len(DRIVE_TIME_LOCATIONS)
               THEN /\ files' = cacheIsochrones([polygons |-> polygons])
                    /\ got' = NoGet
                    /\ search' = [search EXCEPT !.at = "resolved",
                                                !.geocoded = "found",
                                                !.driveTimePolygons = polygons]
               ELSE /\ search' = [search EXCEPT !.driveTimePolygons = polygons]
                    /\ UNCHANGED <<files, got>>
          ELSE \* the catch of line 125
               /\ search' = [search EXCEPT !.at = "resolved", !.geocoded = outcome,
                                           !.driveTimePolygons = <<>>]
               /\ UNCHANGED <<files, got>>
    /\ UNCHANGED <<lastPut, queueVars, fetchVars, estimates, prefetch, progress>>

\* searchProperties, lines 319-331
SearchFetchesPage ==
    /\ search.at = "resolved"
    /\ fetchPropertiesFromRapidApi(NextCaller, search.page)
    /\ search' = [search EXCEPT
                     !.at = "page",
                     !.driveTimePolygons = createCombinedPolygon(@)]
    /\ UNCHANGED <<estimates, prefetch, progress>>

\* searchProperties, lines 331-468
SearchResumes ==
    /\ search.at = "page"
    /\ \E c \in Callers :
         /\ fnOf[c] = PageFn(search.page)
         /\ promise[c].state \in {"resolved", "rejected"}
         /\ search' =
              IF promise[c].state = "rejected"
              THEN [search EXCEPT !.at = "rejected"]
              ELSE LET properties == promise[c].value.data.properties
                       result == optionalFilters(
                                    filteredProperties(properties, search,
                                        search.driveTimePolygons,
                                        search.enabledPolygonIndices),
                                    search)
                   IN [search EXCEPT
                         !.at = "returned",
                         !.properties = result,
                         !.pageProperties = properties,
                         !.filterStats =
                            filterStats(properties, result,
                               calculateMaxHomePrice(search.maxMonthlyPayment,
                                                     search.downPaymentPercent))]
    /\ UNCHANGED <<queueVars, cacheVars, fetchVars, estimates, prefetch, progress>>

\* Time passes.  While the rate window is open (a request started, or a
\* processQueue call began waiting, less than minDelayMs ago) the clock
\* advances by TickMs; otherwise it advances to the moment the next backoff
\* timer becomes due.  Callbacks take no time: a due timer fires before the clock
\* advances, in any order with the other due timers, with calls and with
\* settlements.  The hours that age a cache entry pass while nothing is
\* queued, awaited or scheduled.
WindowOpen ==
    \/ lastRequestAge < minDelayMs
    \/ sinceLastStart < minDelayMs
    \/ \E i \in 1..Len(delayTimers) : delayTimers[i] > 0

\* the steps that take an entry half its TTL further, while one can age
CacheSteps ==
    {TtlOf(f) \div 2 :
        f \in {g \in FileNames : /\ files[g].kind = "json"
                                 /\ files[g].age <= TtlOf(g)}}

QueueIdle ==
    /\ queue = <<>> /\ inflight = {} /\ retryTimers = {}
    /\ delayTimers = <<>> /\ continues = 0

TimerDue ==
    \/ continues > 0
    \/ \E i \in 1..Len(delayTimers) : delayTimers[i] = 0
    \/ \E t \in retryTimers : t.left = 0

TickSteps ==
    (IF QueueIdle THEN CacheSteps ELSE {}) \cup
    (IF WindowOpen THEN {TickMs}
     ELSE {t.left : t \in {u \in retryTimers :
                              \A v \in retryTimers : u.left <= v.left}})

Tick(d) ==
    /\ d \in TickSteps
    /\ ~TimerDue
    /\ lastRequestAge' = Min(minDelayMs, lastRequestAge + d)
    /\ sinceLastStart' = Min(minDelayMs, sinceLastStart + d)
    /\ delayTimers' = [i \in 1..Len(delayTimers) |-> Max(0, delayTimers[i] - d)]
    /\ retryTimers' = {[t EXCEPT !.left = Max(0, @ - d)] : t \in retryTimers}
    /\ files' = FilesAfter(d)
    /\ got' = IF files' = files THEN got ELSE NoGet
    /\ UNCHANGED <<queue, processing, continues, inflight, fnOf, promise, calls,
                   lastGap, loopDied, lastPut, fetchVars, orchVars>>

CacheInit ==
    /\ files = [f \in FileNames |-> Absent]
    /\ got = NoGet
    /\ lastPut = [p \in Pages |-> NoPut]

FetchIdle ==
    /\ lastResponse = NoResponse
    /\ enqueues = [c \in Callers |-> 0]
    /\ rateLimited = 0

QueueInit ==
    /\ queue = <<>>
    /\ processing = FALSE
    /\ lastRequestAge = minDelayMs
    /\ delayTimers = <<>>
    /\ continues = 0
    /\ retryTimers = {}
    /\ inflight = {}
    /\ fnOf = [c \in Callers |-> NoFn]
    /\ promise = [c \in Callers |-> NoSettlement]
    /\ calls = [c \in Callers |-> 0]
    /\ sinceLastStart = minDelayMs
    /\ lastGap = minDelayMs
    /\ loopDied = 0

QueueNext ==
    \/ \E c \in Callers, fn \in MockFns : AddMock(c, fn)
    \/ \E r \in inflight : MockSettles(r)
    \/ \E i \in 1..Len(delayTimers) : DelayFires(i)
    \/ ContinueFires
    \/ \E t \in retryTimers : RetryFires(t)
    \/ \E d \in TickSteps : Tick(d)

\* no search, no prefetch and no estimate has been made
OrchIdle ==
    /\ estimates = <<>>
    /\ search = NoSearch
    /\ prefetch = NoPrefetch
    /\ progress = <<>>

QueueSpecInit ==
    QueueInit /\ CacheInit /\ FetchIdle /\ OrchIdle /\ credentials = TRUE

QueueSpec == QueueSpecInit /\ [][QueueNext]_vars

\* Calls of fetchPropertiesFromRapidApi, the queue serving them, and time.
FetchInit ==
    QueueInit /\ CacheInit /\ FetchIdle /\ OrchIdle /\ credentials \in BOOLEAN

FetchNext ==
    \/ \E c \in Callers, p \in Pages : FetchPage(c, p)
    \/ \E r \in inflight, name \in ResponseNames : PageSettles(r, name)
    \/ \E i \in 1..Len(delayTimers) : DelayFires(i)
    \/ ContinueFires
    \/ \E t \in retryTimers : RetryFires(t)
    \/ \E d \in TickSteps : Tick(d)

FetchSpec == FetchInit /\ [][FetchNext]_vars

\* The cache used on its own: reads, writes and clears in any order, files
\* damaged at any time, time passing.
CacheNext ==
    \/ \E p \in Pages : GetCachedProperties(p)
    \/ GetCachedIsochrones
    \/ \E p \in Pages, data \in PageValues : CacheProperties(data, p)
    \/ \E iso \in IsochroneSets : CacheIsochrones(iso)
    \/ ClearCache
    \/ ClearIsochrones
    \/ \E f \in FileNames : CorruptFile(f)
    \/ \E d \in TickSteps : Tick(d)

CacheSpec == QueueSpecInit /\ [][CacheNext]_vars

\* The cache read by one process while another writes it.
SharedCacheNext ==
    \/ \E p \in Pages : GetCachedProperties(p)
    \/ GetCachedIsochrones
    \/ \E p \in Pages, data \in PageValues : writeFileSyncOpens(PageFile(p), data)
    \/ \E iso \in IsochroneSets : writeFileSyncOpens(IsochronesFile, iso)
    \/ \E f \in FileNames : writeFileSyncCloses(f)

SharedCacheSpec == QueueSpecInit /\ [][SharedCacheNext]_vars

\* One search request: the route, searchProperties, the queue serving its
\* page request, and time.  The isochrones may have been cached before.
\* The request is alone in the queue, which starts it without a delay.
SearchInit ==
    /\ QueueInit /\ FetchIdle /\ OrchIdle /\ credentials = TRUE
    /\ got = NoGet
    /\ lastPut = [p \in Pages |-> NoPut]
    /\ \E content \in {Absent} \cup
                       {Envelope(0, StringifyIsochrones(s)) : s \in IsochroneSets} :
          files = [f \in FileNames |-> IF f = IsochronesFile THEN content ELSE Absent]

SearchNext ==
    \/ \E locations \in LocationChoices, m \in Budgets, pct \in Percents,
          p \in Pages, enabled \in EnabledChoices :
          Post(locations, m, pct, p, enabled)
    \/ \E outcome \in GeocodeOutcomes : AnchorsSettle(outcome)
    \/ \E outcome \in GeocodeOutcomes : PolygonsSettle(outcome)
    \/ SearchFetchesPage
    \/ SearchResumes
    \/ \E r \in inflight, name \in ResponseNames : PageSettles(r, name)
    \/ ContinueFires
    \/ \E t \in retryTimers : RetryFires(t)
    \/ \E d \in TickSteps : Tick(d)

SearchSpec == SearchInit /\ [][SearchNext]_vars

\* the params of the direct calls: every combination of the three optional
\* minimums, given or not
SearchParams ==
    [maxMonthlyPayment : Budgets, downPaymentPercent : {0, 20},
     minBedrooms : {0, 4}, minBathrooms : {0, 2}, minSquareFeet : {0, 2000}]

DirectSearchNext ==
    \/ \E params \in SearchParams, p \in Pages, enabled \in {<<>>, <<0>>} :
          SearchProperties(params, p, enabled)
    \/ \E outcome \in GeocodeOutcomes : PolygonsSettle(outcome)
    \/ SearchFetchesPage
    \/ SearchResumes
    \/ \E r \in inflight, name \in ResponseNames : PageSettles(r, name)
    \/ ContinueFires
    \/ \E t \in retryTimers : RetryFires(t)
    \/ \E d \in TickSteps : Tick(d)

DirectSearchSpec == SearchInit /\ [][DirectSearchNext]_vars

\* One prefetchAllProperties call, the queue serving its page requests, and
\* time.  Pages may have been cached before.
PrefetchInit ==
    /\ QueueInit /\ FetchIdle /\ OrchIdle /\ credentials \in BOOLEAN
    /\ got = NoGet
    /\ \E cached \in SUBSET Pages :
          /\ files = [f \in FileNames |->
                        IF \E p \in cached : f = PageFile(p)
                        THEN Envelope(0, StringifyPage(NormalizePage(Payloads.listing)))
                        ELSE Absent]
          /\ lastPut = [p \in Pages |->
                          IF p \in cached
                          THEN [n |-> 1, data |-> NormalizePage(Payloads.listing)]
                          ELSE NoPut]

PrefetchNext ==
    \/ PrefetchAllProperties
    \/ PrefetchResumes
    \/ \E r \in inflight, name \in ResponseNames : PageSettles(r, name)
    \/ \E i \in 1..Len(delayTimers) : DelayFires(i)
    \/ ContinueFires
    \/ \E t \in retryTimers : RetryFires(t)
    \/ \E d \in TickSteps : Tick(d)

PrefetchSpec == PrefetchInit /\ [][PrefetchNext]_vars

\* The steps of a started prefetch and of the queue are taken when they can
\* be: the provider answers every request, a due timer fires, an await whose
\* promise has settled resumes, time passes.
PrefetchFairness ==
    /\ WF_vars(PrefetchResumes)
    /\ WF_vars(\E r \in inflight, name \in ResponseNames : PageSettles(r, name))
    /\ WF_vars(\E i \in 1..Len(delayTimers) : DelayFires(i))
    /\ WF_vars(ContinueFires)
    /\ WF_vars(\E t \in retryTimers : RetryFires(t))
    /\ WF_vars(\E d \in TickSteps : Tick(d))

PrefetchLive == PrefetchInit /\ [][PrefetchNext]_vars /\ PrefetchFairness

\* calculateMaxHomePrice applied to budgets and down payments in any order.
AffordabilityNext ==
    \E m \in EstimateBudgets, pct \in EstimatePercents : Estimate(m, pct)

AffordabilitySpec == QueueSpecInit /\ [][AffordabilityNext]_vars

\* The queue's own steps are taken when they can be: a due timer fires, an
\* awaited operation settles, time passes.  Nothing obliges a caller to add.
QueueFairness ==
    /\ WF_vars(\E r \in inflight : MockSettles(r))
    /\ WF_vars(\E i \in 1..Len(delayTimers) : DelayFires(i))
    /\ WF_vars(ContinueFires)
    /\ WF_vars(\E t \in retryTimers : RetryFires(t))
    /\ WF_vars(\E d \in TickSteps : Tick(d))

QueueLive == QueueSpecInit /\ [][QueueNext]_vars /\ QueueFairness

\* ----------------------------------------------------------------- claims
InQueue(c) == \E i \in 1..Len(queue) : queue[i].id = c
InBackoff(c) == \E t \in retryTimers : t.id = c
InFlight(c) == \E r \in inflight : r.id = c
Mock(n) == [kind |-> "mock", script |-> n]

RECURSIVE SumCalls(_)
SumCalls(S) ==
    IF S = {} THEN 0
    ELSE LET c == CHOOSE x \in S : TRUE IN calls[c] + SumCalls(S \ {c})

\* C1: at most one operation handed to withRateLimit is executing at any
\* moment, whatever the callers do and however the operations end.
C1_OneExecuting == Cardinality(inflight) <= 1

\* C1 witness: a retried operation is executing while another call waits
\* in the queue.
C1_Witness ==
    \E r \in inflight : r.retries > 0 /\ queue # <<>> /\ processing

\* C2: every invocation of an operation comes at least 1000 ms
\* (minDelayMs at one request per second) after the invocation before it,
\* first attempts and retries alike; so the Nth of M operations enqueued
\* together starts at least (N-1)*1000 ms after the first.
C2_StartsSpaced == requestsPerSecond = 1 => lastGap >= 1000

\* C2 witness: a second invocation has just been made, a retry among the
\* requests involved.
C2_Witness ==
    /\ SumCalls(Callers) >= 2
    /\ sinceLastStart = 0
    /\ \E r \in inflight : r.retries > 0

\* C3: an operation that fails with a 429 twice and then succeeds
\* eventually resolves its caller's promise, after exactly two retries,
\* whether or not another operation is enqueued meanwhile (stated here even
\* granting that no processQueue call dies of an exception).
C3_ResolvesAfterTwo429 ==
    \A c \in Callers :
      [](fnOf[c] = Mock("fails429TwiceThenSucceeds")
           => <>(\/ promise[c].state = "resolved" /\ calls[c] = 3
                 \/ loopDied > 0))

\* C4: an operation that fails with a rate-limit error on every attempt is
\* invoked maxRetries + 1 = 4 times and its caller's promise is then
\* rejected; it is not left pending for ever (stated here even granting that
\* no processQueue call dies of an exception).
C4_RejectsAfterFourAttempts ==
    \A c \in Callers :
      [](fnOf[c] = Mock("always429")
           => <>(\/ promise[c] = Rejected("Http429") /\ calls[c] = 4
                 \/ loopDied > 0))

\* The first attempt of call c has ended.
FirstAttemptOver(c) == calls[c] >= 1 /\ ~(calls[c] = 1 /\ InFlight(c))

FirstError(c) == Errors[MockOutcome(fnOf[c], 1)]

\* no HTTP 429 status and no '429', 'rate limit', 'too many requests' in
\* the message
C5_NoIndicatorInStatusOrMessage(e) ==
    /\ e.status # 429
    /\ ~Includes(e.message, <<"429">>)
    /\ ~Includes(ToLowerCase(e.message), <<"rate", "limit">>)
    /\ ~Includes(ToLowerCase(e.message), <<"too", "many", "requests">>)

C5_RejectedAfterOneAttempt(c) ==
    /\ promise[c] = Rejected(MockOutcome(fnOf[c], 1))
    /\ calls[c] = 1
    /\ ~InQueue(c) /\ ~InBackoff(c) /\ ~InFlight(c)

Reads == {"getCachedProperties", "getCachedIsochrones"}

\* C6: getCachedProperties and getCachedIsochrones never raise; they return
\* null when the entry is absent, cannot be parsed, or is older than the
\* TTL (12 h for a listings page, 7 days for the isochrones), and the
\* stored data in every other case.
C6_MissExactlyWhen ==
    got.op \in Reads =>
      LET ttl == IF got.op = "getCachedProperties"
                 THEN 12 * 60 * 60 * 1000 ELSE 7 * 24 * 60 * 60 * 1000
          entry == files[got.file]
          miss == \/ entry.kind = "absent"
                  \/ entry.kind = "corrupt"
                  \/ entry.kind = "json" /\ entry.age > ttl
      IN /\ ~got.ret.threw
         /\ IF miss THEN got.ret.value = Null
                    ELSE got.ret.value = Value(entry.data)

\* C6 witness: the isochrones were read as null from an entry older than 7
\* days whose data is still in the file.
C6_Witness ==
    /\ got.op = "getCachedIsochrones"
    /\ files[IsochronesFile].kind = "json"
    /\ files[IsochronesFile].age > 7 * 24 * 60 * 60 * 1000
    /\ files[IsochronesFile].data \in IsochroneSets
    /\ got.ret.value = Null

C7_ReadWithinTtl ==
    /\ got.op = "getCachedProperties"
    /\ files[got.file].kind = "json"
    /\ files[got.file].age <= 12 * 60 * 60 * 1000

\* C7 as written: a read of page p within the TTL returns exactly the data
\* handed to the latest cacheProperties for p.
C7_Original ==
    C7_ReadWithinTtl
    => /\ lastPut[got.file.page].n > 0
       /\ got.ret = Return(Value(lastPut[got.file.page].data))

\* what JSON text keeps of a page: NaN becomes null
C7_AsJson(data) ==
    [data EXCEPT !.properties =
        [i \in 1..Len(data.properties) |->
            IF data.properties[i].bathrooms = NaN
            THEN [data.properties[i] EXCEPT !.bathrooms = JsonNull]
            ELSE data.properties[i]]]

\* C7 amended: a read of page p within the TTL returns the data of the
\* latest cacheProperties for p as its JSON text holds it (the same data,
\* but with null for a NaN), whatever was put before for p and whatever is
\* put for other pages.
C7_ReadReturnsLastPutAsJson ==
    C7_ReadWithinTtl
    => /\ lastPut[got.file.page].n > 0
       /\ got.ret = Return(Value(C7_AsJson(lastPut[got.file.page].data)))

\* C7 witness: page 1 was put twice and read back within the TTL, while
\* page 2 holds other data that was put later.
C7_Witness ==
    /\ C7_ReadWithinTtl
    /\ got.file = PageFile(1)
    /\ lastPut[1].n = 2
    /\ files[PageFile(1)].age > 0
    /\ got.ret.value # Null
    /\ files[PageFile(2)].kind = "json"
    /\ files[PageFile(2)].age < files[PageFile(1)].age
    /\ files[PageFile(2)].data # files[PageFile(1)].data

\* C8: clearing the listings cache removes every listings page entry and
\* leaves the isochrone entry as it was; clearing the isochrone cache
\* removes the isochrone entry and leaves every listings page as it was.
C8_ClearsAreIndependent ==
    [][/\ got'.op = "clearCache" =>
            /\ \A p \in Pages : files'[PageFile(p)] = Absent
            /\ files'[IsochronesFile] = files[IsochronesFile]
       /\ got'.op = "clearIsochrones" =>
            /\ files'[IsochronesFile] = Absent
            /\ \A p \in Pages : files'[PageFile(p)] = files[PageFile(p)]]_vars

\* C8 witness: the isochrone cache has been cleared while every listings
\* page is cached.
C8_Witness ==
    /\ got.op = "clearIsochrones"
    /\ \A p \in Pages : lastPut[p].n > 0 /\ files[PageFile(p)].kind = "json"
    /\ files[IsochronesFile] = Absent

\* ---- C9, C10: fetchPropertiesFromRapidApi
C9_Fresh(p) ==
    /\ files[PageFile(p)].kind = "json"
    /\ files[PageFile(p)].age <= CACHE_TTL

C9_Calls(c, p) == fnOf[c] = NoFn /\ fnOf'[c] = PageFn(p)

C9_WellFormed(name) ==
    /\ name \in ResponseNames
    /\ Responses[name].kind = "data"
    /\ Responses[name].typeof = "object" \/ Responses[name].parses
    /\ Payloads[Responses[name].payload].hasArray

\* a call while the cache holds an unexpired entry for p returns the entry
\* and hands nothing to the queue
C9_HitStep ==
    \A c \in Callers, p \in Pages :
        C9_Calls(c, p) /\ C9_Fresh(p) =>
            /\ promise'[c] = Resolved(Value(files[PageFile(p)].data))
            /\ enqueues'[c] = 0
            /\ queue' = queue /\ inflight' = inflight /\ calls' = calls

\* a call on a miss with credentials hands exactly one request to the queue,
\* and no other step hands one over
C9_MissStep ==
    /\ \A c \in Callers, p \in Pages :
        C9_Calls(c, p) /\ ~C9_Fresh(p) /\ credentials =>
            /\ enqueues'[c] = 1
            /\ promise'[c] = Pending
            /\ \/ \E i \in 1..Len(queue') : queue'[i].id = c
               \/ \E r \in inflight' : r.id = c
    /\ \A c \in Callers :
        enqueues'[c] # enqueues[c] => \E p \in Pages : C9_Calls(c, p)

\* the call resolves on a well-formed response with the normalized page,
\* which the cache then holds under p
C9_ResolveStep ==
    \A c \in Callers :
        /\ promise[c] = Pending
        /\ promise'[c].state = "resolved"
        /\ lastResponse'.id = c
        /\ C9_WellFormed(lastResponse'.name)
        => LET page == NormalizePage(Payloads[Responses[lastResponse'.name].payload])
           IN /\ promise'[c] = Resolved(Value(page))
              /\ files'[PageFile(fnOf[c].page)] = Envelope(0, StringifyPage(page))

\* C9: fetchPropertiesFromRapidApi(p), called while the cache holds an
\* unexpired entry for p, returns that entry and enqueues no provider
\* request; called on a miss with credentials present, it enqueues exactly
\* one provider request and, on a well-formed response, stores the
\* normalized page under key p before returning it.
C9_CacheFirstThenOneRequest ==
    [][C9_HitStep /\ C9_MissStep /\ C9_ResolveStep]_vars

\* one call was served by the provider and stored, a later call of the same
\* page was served from the cache
C9_Witness ==
    /\ credentials
    /\ \E c, d \in Callers :
        /\ c # d
        /\ fnOf[c] # NoFn /\ fnOf[c] = fnOf[d]
        /\ enqueues[c] = 1 /\ enqueues[d] = 0
        /\ lastResponse.id = c
        /\ C9_WellFormed(lastResponse.name)
        /\ promise[c].state = "resolved"
        /\ promise[d] = Resolved(Value(files[PageFile(fnOf[c].page)].data))
        /\ promise[d].value.data.properties # <<>>

C10_Is429(name) == name \in DOMAIN Errors /\ Errors[name].status = 429

C10_FailsOrMalformed(name) ==
    /\ name \in ResponseNames
    /\ \/ /\ Responses[name].kind = "error"
          /\ Errors[Responses[name].error].status # 429
       \/ /\ Responses[name].kind = "data"
          /\ \/ Responses[name].typeof = "string" /\ ~Responses[name].parses
             \/ ~Payloads[Responses[name].payload].hasArray

\* the provider answers the request of call c in this step
C10_Answered(c) == inflight' # inflight /\ \E r \in inflight \ inflight' : r.id = c

\* C10: when the provider request fails with any error other than HTTP 429,
\* or returns a payload without a properties array, the call resolves to
\* the empty page {properties: [], totalCount: 0, totalPages: 0} instead of
\* rejecting; only a request that failed with HTTP 429 is passed on to the
\* queue's retry logic, which schedules a retry or rejects.
C10_EmptyPageUnless429 ==
    [][\A c \in Callers :
        /\ (C10_Answered(c) /\ C10_FailsOrMalformed(lastResponse'.name))
            => promise'[c] = Resolved(Value(EmptyPage))
        /\ (\/ promise[c] = Pending /\ promise'[c].state = "rejected"
            \/ ~InBackoff(c) /\ \E t \in retryTimers' : t.id = c)
            => /\ C10_Answered(c)
               /\ lastResponse'.id = c
               /\ C10_Is429(lastResponse'.name)]_vars

\* a call got a network error and resolved to the empty page while
\* another, answered with 429 before, waits for its retry
C10_Witness ==
    \E c, d \in Callers :
        /\ lastResponse = [id |-> c, name |-> "NetworkError"]
        /\ promise[c] = Resolved(Value(EmptyPage))
        /\ enqueues[c] = 1
        /\ InBackoff(d)
        /\ promise[d] = Pending

\* ---- C11..C14, C19: searchProperties
Returned(property) ==
    /\ search.at = "returned"
    /\ \E i \in 1..Len(search.properties) : search.properties[i] = property

ReturnedProperties == {search.properties[i] : i \in 1..Len(search.properties)}

\* C11: every property that searchProperties returns has a price of at most
\* calculateMaxHomePrice(maxMonthlyPayment, downPaymentPercent) and a lat and
\* a lng that are not 0, whatever the polygons are.
C11_PriceAndCoordinates ==
    search.at = "returned" =>
        \A property \in ReturnedProperties :
            /\ AtMost(property.price,
                      calculateMaxHomePrice(search.maxMonthlyPayment,
                                            search.downPaymentPercent))
            /\ property.lat # 0
            /\ property.lng # 0

\* A search returned one property of a page and held back the one without
\* coordinates.
C11_Witness ==
    /\ search.at = "returned"
    /\ Len(search.properties) = 1
    /\ \E c \in Callers :
         /\ fnOf[c] = PageFn(search.page)
         /\ promise[c].state = "resolved"
         /\ \E i \in 1..Len(promise[c].value.data.properties) :
               promise[c].value.data.properties[i].lat = 0

\* the polygons that count for the search: those whose index is in
\* enabledPolygonIndices, all of them when the list is absent or empty
EnabledPolygons ==
    LET n == Len(search.driveTimePolygons)
        enabled == search.enabledPolygonIndices
    IN IF enabled = <<>> THEN 1..n
       ELSE {i \in 1..n : \E k \in 1..Len(enabled) : enabled[k] = i - 1}

\* C12: a property that searchProperties returns lies inside every drive-time
\* polygon whose index is in enabledPolygonIndices (inside every resolved
\* polygon when the list is absent or empty); polygons that are not enabled
\* do not matter.
C12_InsideEveryEnabledPolygon ==
    search.at = "returned" =>
        \A property \in ReturnedProperties :
            \A i \in EnabledPolygons :
                booleanPointInPolygon(property.lat, property.lng,
                                      search.driveTimePolygons[i])

\* lines 40-43: the part of calculateMonthlyPayment that is not principal
\* and interest
TaxAndInsurance(price) == (price * 11) \div 12000 + monthlyInsurance

C13_CarriesPayment(property) ==
    property.monthlyPayment =
        calculateMonthlyPayment(property.price, search.downPaymentPercent)

\* C13 as claimed: every returned property carries the monthlyPayment that
\* calculateMonthlyPayment gives for its price and the request's down
\* payment, and that monthlyPayment is at most params.maxMonthlyPayment.
C13_Original ==
    search.at = "returned" =>
        \A property \in ReturnedProperties :
            /\ C13_CarriesPayment(property)
            /\ property.monthlyPayment <= search.maxMonthlyPayment

\* C13: every returned property carries the monthlyPayment that
\* calculateMonthlyPayment gives for its price and the request's down
\* payment, and the principal and interest in it are at most
\* max(0, params.maxMonthlyPayment - 500); tax and insurance come on top.
C13_PrincipalAndInterestWithinBudget ==
    search.at = "returned" =>
        \A property \in ReturnedProperties :
            /\ C13_CarriesPayment(property)
            /\ property.monthlyPayment - TaxAndInsurance(property.price)
                  <= Max(0, search.maxMonthlyPayment - estimatedTaxAndInsurance)

\* A returned property whose monthlyPayment is above the budget of the
\* request although some of the price is borrowed.
C13_Witness ==
    /\ search.at = "returned"
    /\ search.downPaymentPercent < 100
    /\ \E property \in ReturnedProperties :
          /\ property.monthlyPayment > search.maxMonthlyPayment
          /\ property.monthlyPayment > TaxAndInsurance(property.price)

\* C14: when geocoding an anchor fails while the polygons of a search are
\* being resolved, searchProperties does not return a result set (it
\* rejects).
C14_GeocodeFailureRejects ==
    search.geocoded = "noResults" => search.at # "returned"

\* C19: for a request that supplies anchors, every returned property lies
\* inside a drive-time polygon resolved for the anchors of that request.
C19_InsideRequestPolygons ==
    (search.at = "returned" /\ search.locations # <<>>) =>
        \A property \in ReturnedProperties :
            \E i \in 1..Len(search.requestPolygons) :
                booleanPointInPolygon(property.lat, property.lng,
                                      search.requestPolygons[i])

\* ---- C20: calculateMaxHomePrice
\* C20: calculateMaxHomePrice(m, pct) is 0 for every m <= 500 and, for a
\* fixed down payment pct in 0..100, the larger of two budgets above 500
\* gives the larger maximum price.
C20_ZeroThenStrictlyIncreasing ==
    \A i, j \in 1..Len(estimates) :
        /\ estimates[i].maxMonthlyPayment <= 500 =>
              estimates[i].maxPrice = Dollars(0)
        /\ ( /\ estimates[i].downPaymentPercent = estimates[j].downPaymentPercent
             /\ estimates[i].maxMonthlyPayment > 500
             /\ estimates[i].maxMonthlyPayment < estimates[j].maxMonthlyPayment )
           => Below(estimates[i].maxPrice, estimates[j].maxPrice)

\* ---- C15..C18: prefetchAllProperties
LoadedPages == {prefetch.loadedPages[i] : i \in 1..Len(prefetch.loadedPages)}

\* C15: when prefetchAllProperties returns, a page is in loadedPages exactly
\* when its data was obtained, from the cache or from the provider; a page
\* whose fetch failed, page 1 included, is not in loadedPages and no property
\* came with it.
C15_LoadedIffObtained ==
    prefetch.at = "returned" =>
        /\ LoadedPages = prefetch.obtained
        /\ \A i \in 1..Len(prefetch.allProperties) :
              prefetch.allProperties[i].page \in prefetch.obtained

\* the provider has answered the awaited fetch of page p with a failure
FailedAwaiting(p) ==
    /\ prefetch.at = "page"
    /\ prefetch.page = p
    /\ \E c \in Callers :
          /\ fnOf[c] = PageFn(p)
          /\ lastResponse.id = c
          /\ Responses[lastResponse.name].kind = "error"

\* C16: prefetchAllProperties never rejects and a page's failure does not
\* stop it: once the fetch of a page has failed, the call goes on to a later
\* page or returns its result object.
C16_FailureDoesNotStopThePrefetch ==
    \A p \in Pages :
        [](FailedAwaiting(p) =>
              <>(prefetch.at = "returned" \/ prefetch.page > p))

\* C17: when every provider call is answered, a started prefetchAllProperties
\* returns, also after 429 answers and with no other caller using the queue.
C17_PrefetchReturns ==
    [](prefetch.at = "page" => <>(prefetch.at = "returned"))

\* C18: the calls of onProgressUpdate come in page order, one for each page:
\* the first is (1, totalPages), the i-th is made after page i has been
\* handled and reports how many of the pages up to i are loaded, the
\* reported current never decreases, every page handled so far has been
\* reported, and a prefetch that has fetched page 1 and returned has
\* reported every page up to totalPages.
C18_ProgressInPageOrder ==
    /\ \A i \in 1..Len(progress) :
          /\ progress[i].page = i
          /\ progress[i].total = prefetch.totalPages
          /\ progress[i].current = Cardinality({q \in LoadedPages : q <= i})
          /\ prefetch.at = "returned" \/ prefetch.page > i
    /\ progress # <<>> => progress[1].current = 1
    /\ \A i, j \in 1..Len(progress) :
          i < j => progress[i].current <= progress[j].current
    /\ prefetch.at = "page" => Len(progress) = prefetch.page - 1
    /\ (prefetch.at = "returned" /\ prefetch.loadedPages # <<>>) =>
          Len(progress) = Max(1, prefetch.totalPages)

\* A prefetch over several pages has returned: one page came from the
\* cache, another from the provider, and each was reported.
C18_Witness ==
    /\ prefetch.at = "returned"
    /\ prefetch.totalPages >= 2
    /\ Len(progress) = prefetch.totalPages
    /\ progress[Len(progress)].current = prefetch.totalPages
    /\ \E c \in Callers : enqueues[c] = 1
    /\ \E p \in LoadedPages : \A c \in Callers : fnOf[c] # PageFn(p)

\* The requests a step hands to their operations, and the backoff timers
\* whose callback a step runs.
C21_Started == inflight' \ inflight
C21_Reinserted == {t \in retryTimers : \A u \in retryTimers' : u.id # t.id}

C22_Armed == {t \in retryTimers' : \A u \in retryTimers : u.id # t.id}
C22_ErrorOf(t, n) == Errors[MockOutcome(fnOf[t.id], n)]
\* The least and the least upper bound of the delay retry number k of the
\* timer's operation was given: its jitter lay in [0, JitterRange).
C22_LeastDelay(t, k) == finalDelay(C22_ErrorOf(t, k), k - 1, 0)
C22_DelayBound(t, k) == finalDelay(C22_ErrorOf(t, k), k - 1, JitterRange)

C23_ReadOf(content, f) ==
    IF content.kind = "json" /\ ~Expired(content.age, TtlOf(f))
    THEN Return(Value(content.data))
    ELSE Return(Null)

C24_PassedPriceFailedLocation ==
    LET maxPrice == calculateMaxHomePrice(search.maxMonthlyPayment,
                                          search.downPaymentPercent)
    IN {i \in 1..Len(search.pageProperties) :
          LET property == search.pageProperties[i] IN
          /\ AtMost(property.price, maxPrice)
          /\ ~( /\ property.lat # 0 /\ property.lng # 0
                /\ isPointInPolygons(property.lat, property.lng,
                                     search.driveTimePolygons) )}

\* C24: in the result of searchProperties, filterStats.filteredByLocation
\* is the number of properties of the page that passed the price test and
\* failed the location test, whichever of the optional minimums for
\* bedrooms, bathrooms and square feet are given.
C24_FilteredByLocationCounts ==
    search.at = "returned" =>
       search.filterStats.filteredByLocation =
          Cardinality(C24_PassedPriceFailedLocation)

\* C25: searchProperties leaves the geoJson of every resolved polygon, its
\* features and their properties, as the resolver or the cache delivered
\* it: the polygons of the search result are those the cache holds.
C25_PolygonsAsDelivered ==
    ( /\ search.at = "returned"
      /\ search.geocoded \in {"cached", "found"}
      /\ files[IsochronesFile].kind = "json" )
    => search.driveTimePolygons = files[IsochronesFile].data.polygons

\* C26: whenever the queue holds a request a processing loop is active:
\* the processing flag is true and a processQueue call is awaiting an
\* operation, waiting out the rate delay or scheduled by the timer of line
\* 143.  No request, a re-inserted retry in particular, is left in the queue
\* with nothing to run it (stated here even granting that no processQueue
\* call dies of an exception).
C26_PendingImpliesActive ==
    (queue # <<>> /\ loopDied = 0) =>
       /\ processing
       /\ inflight # {} \/ delayTimers # <<>> \/ continues > 0

\* C27: no provider request for a listings page is being executed while
\* the cache holds an unexpired entry for that page, also when several
\* calls of fetchPropertiesFromRapidApi for the page overlap; so calls that
\* overlap on an uncached page lead to one provider request.
C27_NoRequestWhileCached ==
    \A r \in inflight, p \in Pages :
        fnOf[r.id] = PageFn(p) => ~C9_Fresh(p)

\* the provider's answer is HTTP 429, which the operation throws again
C28_RateLimited(name) == name \in ResponseNames /\ IsHttp429(Responses[name])

C29_ProgressWithinTotal ==
    \A i \in 1..Len(progress) :
        1 <= progress[i].current /\ progress[i].current <= progress[i].total

\* a step writes the isochrone cache file: the file comes to hold an entry
\* that it did not hold, or a younger one
C30_Written ==
    LET before == files[IsochronesFile]
        after == files'[IsochronesFile]
    IN /\ after.kind = "json"
       /\ \/ before.kind # "json"
          \/ before.data # after.data
          \/ after.age < before.age

\* C30: fetchDriveTimePolygons writes the isochrone cache only when every
\* anchor has been geocoded and its isochrone fetched, and then stores one
\* polygon per anchor, in the order of the anchors; when an anchor fails,
\* the entry that was there before the call is left as it was and no part
\* of the set is stored.
C30_CachesCompleteSetsOnly ==
    [][/\ C30_Written =>
            LET stored == files'[IsochronesFile].data.polygons IN
            /\ search.at = "polygons" /\ search'.at = "resolved"
            /\ search'.geocoded = "found"
            /\ Len(search.driveTimePolygons) = Len(DRIVE_TIME_LOCATIONS) - 1
            /\ Len(stored) = Len(DRIVE_TIME_LOCATIONS)
            /\ \A i \in 1..Len(stored) :
                  /\ stored[i].address = DRIVE_TIME_LOCATIONS[i].address
                  /\ stored[i].driveTime = DRIVE_TIME_LOCATIONS[i].driveTime
       /\ (search.at = "polygons" /\ search'.geocoded # "found")
            => files'[IsochronesFile] = files[IsochronesFile]
      ]_vars

\* C30 witness: the loop has passed the last anchor and the complete set
\* has just been stored.
C30_Witness ==
    /\ search.at = "resolved"
    /\ search.geocoded = "found"
    /\ files[IsochronesFile].kind = "json"
    /\ files[IsochronesFile].age = 0
    /\ Len(files[IsochronesFile].data.polygons) = Len(DRIVE_TIME_LOCATIONS)
====
